---------------------------- MODULE Spec2Model ----------------------------
(***************************************************************************)
(* Proclens: a process dashboard.                                          *)
(*   ProcessProvider  - state container: process list, resource summary,   *)
(*                      loading/error flags, chat history, refresh timer.  *)
(*   ProcessTable     - search / sort / paginate over the process list.    *)
(*   QueryInput       - query submission to the local inference service.   *)
(*                                                                         *)
(* Strings are TLA+ strings; a character is a string of length one and is  *)
(* ordered by its UTF-16 code unit (CodeUnits lists the characters used,   *)
(* in code-unit order).  cpuKb and memoryKb, which the program keeps with  *)
(* two decimals, are integers counting hundredths.                         *)
(***************************************************************************)
EXTENDS Integers, Sequences, FiniteSets, TLC

(***************************************************************************)
(* Bounds of the model                                                     *)
(***************************************************************************)
MaxInFlight == 2      \* refreshes in flight at once, the state container alone
MaxSubmits == 3       \* form submissions in one run of the query input
SysInFlight == 1      \* refreshes in flight at once, the whole application
SysSubmits == 2       \* form submissions in one run of the whole application

(***************************************************************************)
(* Strings: the methods of String.prototype the program calls             *)
(***************************************************************************)
CodeUnits == " +-.0123456789:ABCDEFGHIJKLMNOPQRSTUVWXYZ_abcdefghijklmnopqrstuvwxyz"
UpperCase == "ABCDEFGHIJKLMNOPQRSTUVWXYZ"
LowerCase == "abcdefghijklmnopqrstuvwxyz"
Digits == "0123456789"
WhiteSpace == {" ", "\t"}

CharAt(s, i) == SubSeq(s, i, i)
Chars(s) == {CharAt(s, i) : i \in 1..Len(s)}

\* the position of a character in code-unit order
CharCode == [c \in Chars(CodeUnits) |->
               CHOOSE i \in 1..Len(CodeUnits) : CharAt(CodeUnits, i) = c]

\* String.prototype.toLowerCase, one character
LowerChar == [c \in Chars(CodeUnits) |->
                IF c \in Chars(UpperCase)
                THEN CharAt(LowerCase, CHOOSE i \in 1..Len(UpperCase) : CharAt(UpperCase, i) = c)
                ELSE c]

RECURSIVE toLowerCase(_)
toLowerCase(s) ==
  IF Len(s) = 0 THEN "" ELSE LowerChar[CharAt(s, 1)] \o toLowerCase(SubSeq(s, 2, Len(s)))

\* String.prototype.includes
includes(s, t) ==
  \E i \in 0..(Len(s) - Len(t)) : SubSeq(s, i + 1, i + Len(t)) = t

\* no trimming: the string as typed
asTyped(s) == s

\* String.prototype.trim
RECURSIVE trimStart(_)
trimStart(s) ==
  IF Len(s) > 0 /\ CharAt(s, 1) \in WhiteSpace THEN trimStart(SubSeq(s, 2, Len(s))) ELSE s
RECURSIVE trimEnd(_)
trimEnd(s) ==
  IF Len(s) > 0 /\ CharAt(s, Len(s)) \in WhiteSpace THEN trimEnd(SubSeq(s, 1, Len(s) - 1)) ELSE s
trim(s) == trimEnd(trimStart(s))

\* Number.prototype.toString of an integer
RECURSIVE toStringNat(_)
toStringNat(n) ==
  IF n < 10 THEN CharAt(Digits, n + 1)
  ELSE toStringNat(n \div 10) \o CharAt(Digits, (n % 10) + 1)
toString(n) == IF n < 0 THEN "-" \o toStringNat(0 - n) ELSE toStringNat(n)

\* the < of two strings: code units compared left to right, a proper prefix is less
RECURSIVE StrLess(_, _)
StrLess(a, b) ==
  IF Len(b) = 0 THEN FALSE
  ELSE IF Len(a) = 0 THEN TRUE
  ELSE IF CharAt(a, 1) = CharAt(b, 1) THEN StrLess(SubSeq(a, 2, Len(a)), SubSeq(b, 2, Len(b)))
  ELSE CharCode[CharAt(a, 1)] < CharCode[CharAt(b, 1)]

(***************************************************************************)
(* Process records                                                         *)
(***************************************************************************)
ProcessKeys == {"pid", "name", "status", "cpuKb", "memoryKb", "user",
                "startTime", "threads", "priority"}
NumberKeys == {"pid", "cpuKb", "memoryKb", "threads", "priority"}

Process(pid, name, status, cpuKb, memoryKb, user, startTime, threads, priority) ==
  [pid |-> pid, name |-> name, status |-> status, cpuKb |-> cpuKb,
   memoryKb |-> memoryKb, user |-> user, startTime |-> startTime,
   threads |-> threads, priority |-> priority]


(***************************************************************************)
(* Array.prototype.sort(comparefn): a stable sort.  cmp[<<i, j>>] is       *)
(* comparefn(list[i], list[j]).  A merge sort on the indices: an element   *)
(* of the left run goes after the elements of the right run that compare   *)
(* less than it, one of the right run after those of the left run that do  *)
(* not compare greater.                                                    *)
(***************************************************************************)
Merge(A, B, cmp) ==
  LET posA == [i \in 1..Len(A) |->
                 i + Cardinality({j \in 1..Len(B) : cmp[<<B[j], A[i]>>] < 0})]
      posB == [j \in 1..Len(B) |->
                 j + Cardinality({i \in 1..Len(A) : cmp[<<A[i], B[j]>>] <= 0})]
      pa == SubSeq(posA, 1, Len(A))
      pb == SubSeq(posB, 1, Len(B))
      out == [k \in 1..(Len(A) + Len(B)) |->
                IF \E i \in 1..Len(A) : pa[i] = k
                THEN A[CHOOSE i \in 1..Len(A) : pa[i] = k]
                ELSE B[CHOOSE j \in 1..Len(B) : pb[j] = k]]
  IN  SubSeq(out, 1, Len(A) + Len(B))

RECURSIVE SortedIndices(_, _, _)
SortedIndices(lo, hi, cmp) ==
  IF lo > hi THEN <<>>
  ELSE IF lo = hi THEN <<lo>>
  ELSE LET mid == (lo + hi) \div 2
       IN  Merge(SortedIndices(lo, mid, cmp), SortedIndices(mid + 1, hi, cmp), cmp)

ArraySort(list, cmp) ==
  LET idx == SortedIndices(1, Len(list), cmp)
      out == [k \in 1..Len(list) |-> list[idx[k]]]
  IN  SubSeq(out, 1, Len(list))

\* Array.prototype.slice(start, end), 0-based, end exclusive, both clamped
slice(list, start, end) ==
  LET n == Len(list)
      from == IF start < 0 THEN (IF n + start < 0 THEN 0 ELSE n + start)
              ELSE (IF start > n THEN n ELSE start)
      to == IF end < 0 THEN (IF n + end < 0 THEN 0 ELSE n + end)
            ELSE (IF end > n THEN n ELSE end)
  IN  SubSeq(list, from + 1, to)

\* Array.prototype.filter
RECURSIVE filterRange(_, _, _, _)
filterRange(list, keep, lo, hi) ==
  IF lo > hi THEN <<>>
  ELSE IF lo = hi THEN (IF keep[lo] THEN <<list[lo]>> ELSE <<>>)
  ELSE LET mid == (lo + hi) \div 2
       IN  filterRange(list, keep, lo, mid) \o filterRange(list, keep, mid + 1, hi)
filter(list, keep) == filterRange(list, keep, 1, Len(list))

(***************************************************************************)
(* Synthetic data (ProcessProvider.tsx, generateMock...)                   *)
(* Math.random() is a draw determined by the seed of the generation, the   *)
(* index of the record and the place of the call.                          *)
(***************************************************************************)
processNames == <<
  "chrome", "firefox", "safari", "edge", "brave",
  "node", "npm", "yarn", "python", "python3", "java", "javaw", "dotnet", "gcc", "clang",
  "vscode", "code", "idea", "eclipse", "atom", "sublime_text", "notepad++",
  "terminal", "cmd", "powershell", "bash", "zsh", "iTerm", "hyper",
  "spotify", "spotify.exe", "music", "itunes", "vlc", "mplayer",
  "slack", "discord", "teams", "zoom", "skype", "telegram", "signal",
  "explorer", "finder", "nautilus", "dolphin",
  "systemd", "launchd", "svchost", "services", "wininit", "lsass", "ntoskrnl",
  "docker", "containerd", "kubelet", "kube-proxy",
  "mysqld", "postgres", "mongod", "redis-server", "elasticsearch",
  "nginx", "apache2", "httpd", "iis",
  "photoshop", "illustrator", "gimp", "inkscape", "blender",
  "antivirus", "defender", "avast", "norton", "mcafee",
  "dropbox", "onedrive", "gdrive",
  "steam", "epic", "battle.net", "origin" >>
users == <<"system", "root", "admin", "user", "guest", "service", "daemon", "www-data", "nobody">>
statuses == <<"running", "sleeping", "stopped", "zombie", "waiting", "locked">>
priorities == <<0, 1, 2, 5, 10, 15, 20>>
MockCount == 100

\* Math.floor(Math.random() * n): the draw of call k for record i under seed
Random(seed, i, k, n) == (((seed * 7919 + i * 613 + k * 3571) * 9973) % 1000003) % n

pad2(n) == IF n < 10 THEN "0" \o toString(n) ELSE toString(n)

\* a timestamp between 5 minutes and 30 days before now (2026-10-31 00:00:00)
generateStartTime(seed, i) ==
  LET randomMinutes == Random(seed, i, 5, 30 * 24 * 60 - 5) + 5
      t == 30 * 24 * 60 - randomMinutes
  IN  "2026-10-" \o pad2(1 + t \div 1440) \o " " \o pad2((t % 1440) \div 60)
      \o ":" \o pad2(t % 60) \o ":00"

\* the record of index i (0-based) before the sort
MockProcess(seed, i) ==
  Process(1000 + i,
          processNames[Random(seed, i, 1, Len(processNames)) + 1],
          statuses[Random(seed, i, 3, Len(statuses)) + 1],
          Random(seed, i, 6, 10001),
          Random(seed, i, 7, 100001),
          users[Random(seed, i, 2, Len(users)) + 1],
          generateStartTime(seed, i),
          Random(seed, i, 8, 20) + 1,
          priorities[Random(seed, i, 4, Len(priorities)) + 1])

\* the generation with the comparator of the sort turned round
generateMockProcessesAscending(seed) ==
  LET raw == [k \in 1..MockCount |-> MockProcess(seed, k - 1)]
      cmp == [p \in (1..MockCount) \X (1..MockCount) |->
                raw[p[1]].memoryKb - raw[p[2]].memoryKb]
  IN  ArraySort(raw, cmp)

generateMockProcesses(seed) ==
  LET raw == [k \in 1..MockCount |-> MockProcess(seed, k - 1)]
      cmp == [p \in (1..MockCount) \X (1..MockCount) |->
                raw[p[2]].memoryKb - raw[p[1]].memoryKb]
  IN  ArraySort(raw, cmp)

\* the seeds of the mock generations, and the lists they give
Seeds == {1, 2}
mockProcesses == [seed \in Seeds |-> generateMockProcesses(seed)]

\* parseFloat((Math.random() * n).toFixed(2)), in hundredths
generateMockSystemResources(seed) ==
  [totalCpuUsage |-> Random(seed, 0, 11, 10001),
   totalMemoryUsage |-> Random(seed, 0, 12, 1600001),
   totalMemory |-> 32000,
   diskUsage |-> Random(seed, 0, 13, 50000001),
   totalDisk |-> 1000000,
   networkUsage |-> Random(seed, 0, 14, 10001)]

(***************************************************************************)
(* ProcessTable: filter, sort, paginate                                    *)
(***************************************************************************)
itemsPerPage == 10

\* the filter with the search term taken as typed
matchesAsTyped(process, searchTerm) ==
  \/ includes(toLowerCase(process.name), searchTerm)
  \/ includes(toString(process.pid), searchTerm)
  \/ includes(toLowerCase(process.status), searchTerm)
  \/ includes(toLowerCase(process.user), searchTerm)

matches(process, searchTerm) ==
  \/ includes(toLowerCase(process.name), toLowerCase(searchTerm))
  \/ includes(toString(process.pid), searchTerm)
  \/ includes(toLowerCase(process.status), toLowerCase(searchTerm))
  \/ includes(toLowerCase(process.user), toLowerCase(searchTerm))

filteredProcesses(procs, searchTerm) ==
  filter(procs, [i \in 1..Len(procs) |-> matches(procs[i], searchTerm)])

\* a[key] < b[key]
Less(a, b, key) ==
  IF key \in NumberKeys THEN a[key] < b[key] ELSE StrLess(a[key], b[key])

compare(a, b, config) ==
  IF Less(a, b, config.key) THEN (IF config.direction = "ascending" THEN -1 ELSE 1)
  ELSE IF Less(b, a, config.key) THEN (IF config.direction = "ascending" THEN 1 ELSE -1)
  ELSE 0

\* the sort with the descending order taken as the ascending order reversed
sortedByReversal(filtered, config) ==
  LET up == ArraySort(filtered,
                      [p \in (1..Len(filtered)) \X (1..Len(filtered)) |->
                         compare(filtered[p[1]], filtered[p[2]],
                                 [key |-> config.key, direction |-> "ascending"])])
      n == Len(filtered)
  IN  IF config.direction = "ascending" THEN up
      ELSE SubSeq([k \in 1..n |-> up[n + 1 - k]], 1, n)

sortedProcesses(filtered, config) ==
  ArraySort(filtered,
            [p \in (1..Len(filtered)) \X (1..Len(filtered)) |->
               compare(filtered[p[1]], filtered[p[2]], config)])

\* Math.ceil(n / itemsPerPage)
totalPages(sorted) == (Len(sorted) + itemsPerPage - 1) \div itemsPerPage

\* the page with the page number taken as 0-based
paginatedFromZero(sorted, page) ==
  slice(sorted, page * itemsPerPage, (page + 1) * itemsPerPage)

paginatedProcesses(sorted, page) ==
  slice(sorted, (page - 1) * itemsPerPage, page * itemsPerPage)


(***************************************************************************)
(* What the servers can answer                                             *)
(***************************************************************************)
\* a payload of GET /processes
Fixture == <<
  Process(1042, "node", "running", 1250, 20480, "root", "2026-10-30 08:15:00", 11, 0),
  Process(77, "notepad++", "sleeping", 310, 5120, "Admin", "2026-10-29 21:00:10", 4, 10),
  Process(9, "systemd", "running", 5, 20480, "root", "2026-10-01 00:00:01", 1, 0),
  Process(410, "Node Helper", "Zombie", 310, 64, "www-data", "2026-10-30 08:15:00", 2, 20),
  Process(1100, "nginx", "sleeping", 0, 5120, "www-data", "2026-10-12 10:42:00", 4, 5),
  Process(42, "bash", "stopped", 99, 700, "user", "2026-10-30 23:59:59", 1, 10) >>

\* a later payload: the first five records as in Fixture, the sixth changed
FixtureLater ==
  [Fixture EXCEPT ![6] =
     Process(42, "bash", "running", 120, 700, "user", "2026-10-30 23:59:59", 1, 10)]

\* a payload of n records, in no particular order
SampleList(n) == [k \in 1..n |-> MockProcess(3, k - 1)]

\* a payload of GET /system-resources
ServerResources ==
  [totalCpuUsage |-> 4210, totalMemoryUsage |-> 1234500, totalMemory |-> 16000,
   diskUsage |-> 25000000, totalDisk |-> 512000, networkUsage |-> 150]

\* the payloads of GET /processes the specifications use
ServerLists == {<<>>, Fixture, FixtureLater}
Payloads == ServerLists \cup {SampleList(11)} \cup {mockProcesses[seed] : seed \in Seeds}

\* the outcome of one fetch: a 2xx answer with a JSON body, a 2xx answer whose
\* body does not parse, any other status, no answer at all
Answers(bodies) == {[kind |-> "json", body |-> b] : b \in bodies}
Failures == {[kind |-> "unparsable"], [kind |-> "status"], [kind |-> "network"]}

Pending == [state |-> "pending"]
Fulfilled(v) == [state |-> "fulfilled", value |-> v]
Rejected == [state |-> "rejected"]

(***************************************************************************)
(* ProcessProvider                                                         *)
(***************************************************************************)
null == "<null>"

initialProcesses == <<>>
initialResources ==
  [totalCpuUsage |-> 0, totalMemoryUsage |-> 0, totalMemory |-> 32000,
   diskUsage |-> 0, totalDisk |-> 1000000, networkUsage |-> 0]

\* fetchProcesses with the body parsed outside its try
fetchProcessesParsingOutside(outcome, seed) ==
  CASE outcome.kind = "network" -> Fulfilled(mockProcesses[seed])
    [] outcome.kind = "unparsable" -> Rejected
    [] outcome.kind = "status" -> Fulfilled(mockProcesses[seed])
    [] outcome.kind = "json" -> Fulfilled(outcome.body)

\* fetchProcesses: the promise it returns
fetchProcesses(outcome, seed) ==
  CASE outcome.kind = "network" -> Fulfilled(mockProcesses[seed])
    [] outcome.kind = "unparsable" -> Fulfilled(mockProcesses[seed])
    [] outcome.kind = "status" -> Fulfilled(mockProcesses[seed])
    [] outcome.kind = "json" -> Fulfilled(outcome.body)

\* fetchSystemResources: the promise it returns
fetchSystemResources(outcome, seed) ==
  CASE outcome.kind = "network" -> Fulfilled(generateMockSystemResources(seed))
    [] outcome.kind = "unparsable" -> Fulfilled(generateMockSystemResources(seed))
    [] outcome.kind = "status" -> Fulfilled(generateMockSystemResources(seed))
    [] outcome.kind = "json" -> Fulfilled(outcome.body)

\* JSON.stringify of a list of process records
stringifyProcess(p) ==
  "{\"pid\":" \o toString(p.pid)
    \o ",\"name\":\"" \o p.name
    \o "\",\"status\":\"" \o p.status
    \o "\",\"cpuKb\":" \o toString(p.cpuKb)
    \o ",\"memoryKb\":" \o toString(p.memoryKb)
    \o ",\"user\":\"" \o p.user
    \o "\",\"startTime\":\"" \o p.startTime
    \o "\",\"threads\":" \o toString(p.threads)
    \o ",\"priority\":" \o toString(p.priority) \o "}"
RECURSIVE joinProcesses(_)
joinProcesses(list) ==
  IF Len(list) = 0 THEN ""
  ELSE IF Len(list) = 1 THEN stringifyProcess(list[1])
  ELSE stringifyProcess(list[1]) \o "," \o joinProcesses(Tail(list))
JSONstringify(list) == "[" \o joinProcesses(list) \o "]"

\* JSON.stringify(list.slice(0, 5)); the texts of the payloads the servers and
\* the fallback give are computed once
textOfFirstFive == [list \in Payloads |-> JSONstringify(slice(list, 0, 5))]
stringifyFirstFive(list) ==
  IF list \in Payloads THEN textOfFirstFive[list] ELSE JSONstringify(slice(list, 0, 5))

\* an updater that compares the whole lists
hasChangedAnywhere(prevProcesses, processData) ==
  \/ Len(prevProcesses) = 0
  \/ processData # prevProcesses

\* the updater handed to setProcesses
hasChanged(prevProcesses, processData) ==
  \/ Len(prevProcesses) = 0
  \/ stringifyFirstFive(processData) # stringifyFirstFive(prevProcesses)
updateProcesses(prevProcesses, processData) ==
  IF hasChanged(prevProcesses, processData) THEN processData ELSE prevProcesses

VARIABLES
  processes,        \* ProcessProvider: useState<Process[]>
  systemResources,  \* ProcessProvider: useState<SystemResources>
  loading,          \* ProcessProvider: useState(true)
  error,            \* ProcessProvider: useState<string | null>
  chatHistory,      \* ProcessProvider: useState<string[]>
  intervalRef,      \* ProcessProvider: useRef, null or the id of the interval
  intervals,        \* the ids of the intervals the event loop still fires
  lifecycle,        \* "rendered" (before the effects run), "mounted", "unmounted"
  refreshes,        \* the calls of refreshProcesses that have not settled, in the
                    \* order they started: the promises of the two fetches, and
                    \* whether the server failed each fetch (procFailed, resFailed)
  toasts,           \* the notifications shown (toast.error), oldest first
  searchTerm,       \* ProcessTable: useState('')
  sortConfig,       \* ProcessTable: useState({key, direction})
  currentPage,      \* ProcessTable: useState(1)
  query,            \* QueryInput: useState('')
  isLoading,        \* QueryInput: useState(false)
  ollamaAvailable,  \* QueryInput: useState<boolean | null>, as "true", "false" or null
  probe,            \* the availability probe: "idle", "pending" or "done"
  requests,         \* the submissions awaiting the inference service
  submissions       \* every form submission, in submission order, with what became of it

provider == <<processes, systemResources, loading, error, chatHistory,
              intervalRef, intervals, lifecycle, refreshes>>
table == <<searchTerm, sortConfig, currentPage>>
queryInput == <<query, isLoading, ollamaAvailable, probe, requests, submissions>>
vars == <<provider, toasts, table, queryInput>>

Init ==
  /\ processes = initialProcesses
  /\ systemResources = initialResources
  /\ loading = TRUE
  /\ error = null
  /\ chatHistory = <<>>
  /\ intervalRef = null
  /\ intervals = {}
  /\ lifecycle = "rendered"
  /\ refreshes = <<>>
  /\ toasts = <<>>
  /\ searchTerm = ""
  /\ sortConfig = [key |-> "memoryKb", direction |-> "descending"]
  /\ currentPage = 1
  /\ query = ""
  /\ isLoading = FALSE
  /\ ollamaAvailable = null
  /\ probe = "idle"
  /\ requests = {}
  /\ submissions = <<>>

\* a state setter of a component that is no longer mounted does nothing
Set(old, new) == IF lifecycle = "unmounted" THEN old ELSE new

\* the sequence without its element i
Remove(seq, i) == SubSeq(seq, 1, i - 1) \o SubSeq(seq, i + 1, Len(seq))

\* refreshProcesses up to its await; procs is the process list of the render
\* whose refreshProcesses is called
RefreshStart(procs) ==
  /\ loading' = IF Len(procs) = 0 THEN Set(loading, TRUE) ELSE loading
  /\ refreshes' = Append(refreshes, [proc |-> Pending, res |-> Pending,
                                     procFailed |-> FALSE, resFailed |-> FALSE])

\* refreshProcesses storing each result as soon as its fetch gives it
RefreshContinueEarly(i, rec) ==
  IF rec.proc.state = "fulfilled" /\ rec.res.state = "fulfilled"
  THEN /\ processes' = Set(processes, updateProcesses(processes, rec.proc.value))
       /\ systemResources' = Set(systemResources, rec.res.value)
       /\ error' = Set(error, null)
       /\ loading' = Set(loading, FALSE)
       /\ refreshes' = Remove(refreshes, i)
       /\ UNCHANGED toasts
  ELSE /\ processes' = IF rec.proc.state = "fulfilled"
                       THEN Set(processes, updateProcesses(processes, rec.proc.value))
                       ELSE processes
       /\ systemResources' = IF rec.res.state = "fulfilled"
                             THEN Set(systemResources, rec.res.value)
                             ELSE systemResources
       /\ refreshes' = [refreshes EXCEPT ![i] = rec]
       /\ UNCHANGED <<error, loading, toasts>>

\* refreshProcesses without its finally block
RefreshContinueKeepingLoading(i, rec) ==
  IF rec.proc.state = "rejected" \/ rec.res.state = "rejected"
  THEN /\ error' = Set(error, "Failed to fetch system data")
       /\ toasts' = Append(toasts, "Failed to fetch system data")
       /\ refreshes' = Remove(refreshes, i)
       /\ UNCHANGED <<processes, systemResources, loading>>
  ELSE IF rec.proc.state = "fulfilled" /\ rec.res.state = "fulfilled"
  THEN /\ processes' = Set(processes, updateProcesses(processes, rec.proc.value))
       /\ systemResources' = Set(systemResources, rec.res.value)
       /\ error' = Set(error, null)
       /\ refreshes' = Remove(refreshes, i)
       /\ UNCHANGED <<toasts, loading>>
  ELSE /\ refreshes' = [refreshes EXCEPT ![i] = rec]
       /\ UNCHANGED <<processes, systemResources, error, loading, toasts>>

\* refreshProcesses dropping what it fetched when a later refresh is in flight
RefreshContinueLatestOnly(i, rec) ==
  IF rec.proc.state = "rejected" \/ rec.res.state = "rejected"
  THEN /\ error' = Set(error, "Failed to fetch system data")
       /\ toasts' = Append(toasts, "Failed to fetch system data")
       /\ loading' = Set(loading, FALSE)
       /\ refreshes' = Remove(refreshes, i)
       /\ UNCHANGED <<processes, systemResources>>
  ELSE IF rec.proc.state = "fulfilled" /\ rec.res.state = "fulfilled"
  THEN /\ refreshes' = Remove(refreshes, i)
       /\ UNCHANGED toasts
       /\ systemResources' = IF i < Len(refreshes) THEN systemResources
                             ELSE Set(systemResources, rec.res.value)
       /\ error' = Set(error, null)
       /\ loading' = Set(loading, FALSE)
       /\ processes' = IF i < Len(refreshes) THEN processes
                       ELSE Set(processes, updateProcesses(processes, rec.proc.value))
  ELSE /\ refreshes' = [refreshes EXCEPT ![i] = rec]
       /\ UNCHANGED <<processes, systemResources, error, loading, toasts>>

\* refreshProcesses storing the summary only when it stores the list
RefreshContinueSkippingBoth(i, rec) ==
  IF rec.proc.state = "rejected" \/ rec.res.state = "rejected"
  THEN /\ error' = Set(error, "Failed to fetch system data")
       /\ toasts' = Append(toasts, "Failed to fetch system data")
       /\ loading' = Set(loading, FALSE)
       /\ refreshes' = Remove(refreshes, i)
       /\ UNCHANGED <<processes, systemResources>>
  ELSE IF rec.proc.state = "fulfilled" /\ rec.res.state = "fulfilled"
  THEN /\ refreshes' = Remove(refreshes, i)
       /\ UNCHANGED toasts
       /\ systemResources' = IF hasChanged(processes, rec.proc.value)
                             THEN Set(systemResources, rec.res.value)
                             ELSE systemResources
       /\ error' = Set(error, null)
       /\ loading' = Set(loading, FALSE)
       /\ processes' = Set(processes, updateProcesses(processes, rec.proc.value))
  ELSE /\ refreshes' = [refreshes EXCEPT ![i] = rec]
       /\ UNCHANGED <<processes, systemResources, error, loading, toasts>>

\* refreshProcesses after its await, once rec holds what the two fetches gave:
\* Promise.all rejects with the first rejection and resolves with the last result
RefreshContinue(i, rec) ==
  IF rec.proc.state = "rejected" \/ rec.res.state = "rejected"
  THEN /\ error' = Set(error, "Failed to fetch system data")
       /\ toasts' = Append(toasts, "Failed to fetch system data")
       /\ loading' = Set(loading, FALSE)
       /\ refreshes' = Remove(refreshes, i)
       /\ UNCHANGED <<processes, systemResources>>
  ELSE IF rec.proc.state = "fulfilled" /\ rec.res.state = "fulfilled"
  THEN /\ refreshes' = Remove(refreshes, i)
       /\ UNCHANGED toasts
       /\ systemResources' = Set(systemResources, rec.res.value)
       /\ error' = Set(error, null)
       /\ loading' = Set(loading, FALSE)
       /\ processes' = Set(processes, updateProcesses(processes, rec.proc.value))
  ELSE /\ refreshes' = [refreshes EXCEPT ![i] = rec]
       /\ UNCHANGED <<processes, systemResources, error, loading, toasts>>

\* the effect of ProcessProvider (with the probe QueryInput's effect starts)
Mount ==
  /\ lifecycle = "rendered"
  /\ lifecycle' = "mounted"
  /\ RefreshStart(initialProcesses)
  /\ intervalRef' = "interval#1"
  /\ intervals' = {"interval#1"}
  /\ probe' = "pending"
  /\ UNCHANGED <<processes, systemResources, error, chatHistory, toasts, table,
                 query, isLoading, ollamaAvailable, requests, submissions>>

\* a timer that fires once (setTimeout)
TimerTickOnce(limit) ==
  /\ intervals # {}
  /\ Len(refreshes) < limit
  /\ RefreshStart(initialProcesses)
  /\ intervals' = {}
  /\ UNCHANGED <<processes, systemResources, error, chatHistory, intervalRef,
                 lifecycle, toasts, table, queryInput>>

\* the interval fires: the refreshProcesses of the first render runs
TimerTick(limit) ==
  /\ intervals # {}
  /\ Len(refreshes) < limit
  /\ RefreshStart(initialProcesses)
  /\ UNCHANGED <<processes, systemResources, error, chatHistory, intervalRef,
                 intervals, lifecycle, toasts, table, queryInput>>

\* the refresh button of ProcessTable
ClickRefresh(limit) ==
  /\ lifecycle = "mounted"
  /\ Len(refreshes) < limit
  /\ RefreshStart(processes)
  /\ UNCHANGED <<processes, systemResources, error, chatHistory, intervalRef,
                 intervals, lifecycle, toasts, table, queryInput>>

\* the fetch of the process list of refresh i completes
FetchProcessesDoneAt(i, outcomes, seeds) ==
  \E outcome \in outcomes :
  \E seed \in (IF outcome \in Failures THEN seeds ELSE {CHOOSE x \in seeds : TRUE}) :
    /\ i \in DOMAIN refreshes
    /\ refreshes[i].proc = Pending
    /\ RefreshContinue(i, [refreshes[i] EXCEPT !.proc = fetchProcesses(outcome, seed),
                                               !.procFailed = outcome \in Failures])
    /\ UNCHANGED <<chatHistory, intervalRef, intervals, lifecycle, table, queryInput>>

FetchProcessesDone(outcomes, seeds) ==
  \E i \in DOMAIN refreshes : FetchProcessesDoneAt(i, outcomes, seeds)

\* the fetch of the resource summary of refresh i completes
FetchResourcesDoneAt(i, outcomes, seeds) ==
  \E outcome \in outcomes :
  \E seed \in (IF outcome \in Failures THEN seeds ELSE {CHOOSE x \in seeds : TRUE}) :
    /\ i \in DOMAIN refreshes
    /\ refreshes[i].res = Pending
    /\ RefreshContinue(i, [refreshes[i] EXCEPT !.res = fetchSystemResources(outcome, seed),
                                               !.resFailed = outcome \in Failures])
    /\ UNCHANGED <<chatHistory, intervalRef, intervals, lifecycle, table, queryInput>>

\* a cleanup that leaves the interval running
UnmountKeepingInterval ==
  /\ lifecycle = "mounted"
  /\ lifecycle' = "unmounted"
  /\ UNCHANGED <<processes, systemResources, loading, error, chatHistory, intervalRef,
                 intervals, refreshes, toasts, table, queryInput>>

FetchResourcesDone(outcomes, seeds) ==
  \E i \in DOMAIN refreshes : FetchResourcesDoneAt(i, outcomes, seeds)

\* the cleanup of the effect
Unmount ==
  /\ lifecycle = "mounted"
  /\ lifecycle' = "unmounted"
  /\ intervals' = IF intervalRef # null THEN intervals \ {intervalRef} ELSE intervals
  /\ UNCHANGED <<processes, systemResources, loading, error, chatHistory, intervalRef,
                 refreshes, toasts, table, queryInput>>

\* the reply put at the head of the history
addToChatHistoryAtHead(prev, response) == <<response>> \o prev

\* the reply added unless the history holds it already
addToChatHistoryOnce(prev, response) ==
  IF \E i \in 1..Len(prev) : prev[i] = response THEN prev ELSE Append(prev, response)

\* addToChatHistory
addToChatHistory(prev, response) == Append(prev, response)

(***************************************************************************)
(* QueryInput                                                              *)
(***************************************************************************)
\* the answers of GET /api/tags
ProbeOutcomes ==
  {[kind |-> "http", status |-> 200], [kind |-> "http", status |-> 204],
   [kind |-> "http", status |-> 500], [kind |-> "network"]}

isOllamaRunning(outcome) ==
  IF outcome.kind = "http" THEN (IF outcome.status = 200 THEN "true" ELSE "false")
  ELSE "false"

\* the JSON bodies of POST /api/generate: with a reply, with an empty reply,
\* without the reply field
InferenceBodies ==
  {[response |-> "PID 1042 is node", done |-> "true"],
   [response |-> "3 processes are running", done |-> "true"],
   [response |-> "", done |-> "true"],
   [done |-> "true"]}

\* data.response || "No response from Ollama."
replyOf(data) ==
  IF "response" \in DOMAIN data /\ data.response # "" THEN data.response
  ELSE "No response from Ollama."

\* queryOllama reading the body whatever the status
queryOllamaAnyStatus(outcome) ==
  CASE outcome.kind = "json" -> Fulfilled(replyOf(outcome.body))
    [] outcome.kind = "unparsable" -> Rejected
    [] outcome.kind = "status" -> Fulfilled("No response from Ollama.")
    [] outcome.kind = "network" -> Rejected

\* queryOllama: the promise it returns
queryOllama(outcome) ==
  CASE outcome.kind = "json" -> Fulfilled(replyOf(outcome.body))
    [] outcome.kind = "unparsable" -> Rejected
    [] outcome.kind = "status" -> Rejected
    [] outcome.kind = "network" -> Rejected

\* Input onChange; the Input is disabled while isLoading
SetQuery(queries) ==
  \E q \in queries :
    /\ lifecycle = "mounted"
    /\ ~isLoading
    /\ query' = q
    /\ UNCHANGED <<provider, toasts, table, isLoading, ollamaAvailable, probe,
                   requests, submissions>>

\* the form left enabled while a submission is outstanding
canSubmitWhileLoading == lifecycle = "mounted"

\* whether the form can be submitted: the Input and the Button are disabled
\* while isLoading
canSubmit == lifecycle = "mounted" /\ ~isLoading

\* a handleSubmit that refreshes the process list before it builds its prompt
HandleSubmitRefreshing(limit) ==
  /\ canSubmit
  /\ Len(submissions) < limit
  /\ RefreshStart(processes)
  /\ IF trim(query) = ""
     THEN /\ toasts' = Append(toasts, "Please enter a query")
          /\ submissions' = Append(submissions, [query |-> query, outcome |-> [kind |-> "empty"]])
          /\ UNCHANGED <<isLoading, requests>>
     ELSE /\ isLoading' = TRUE
          /\ requests' = requests \cup {Len(submissions) + 1}
          /\ submissions' = Append(submissions, [query |-> query, outcome |-> Pending])
          /\ UNCHANGED toasts
  /\ UNCHANGED <<processes, systemResources, error, chatHistory, intervalRef, intervals,
                 lifecycle, table, query, ollamaAvailable, probe>>

\* handleSubmit up to its await
HandleSubmit(limit) ==
  /\ canSubmit
  /\ Len(submissions) < limit
  /\ IF trim(query) = ""
     THEN /\ toasts' = Append(toasts, "Please enter a query")
          /\ submissions' = Append(submissions, [query |-> query, outcome |-> [kind |-> "empty"]])
          /\ UNCHANGED <<isLoading, requests>>
     ELSE /\ isLoading' = TRUE
          /\ requests' = requests \cup {Len(submissions) + 1}
          /\ submissions' = Append(submissions, [query |-> query, outcome |-> Pending])
          /\ UNCHANGED toasts
  /\ UNCHANGED <<provider, table, query, ollamaAvailable, probe>>

\* handleSubmit after its await: the inference service answered request id
QuerySettle(outcomes) ==
  \E id \in requests, outcome \in outcomes :
    LET response == queryOllama(outcome)
    IN  /\ requests' = requests \ {id}
        /\ submissions' = [submissions EXCEPT ![id].outcome = outcome]
        /\ IF response.state = "fulfilled"
           THEN /\ chatHistory' = Set(chatHistory, addToChatHistory(chatHistory, response.value))
                /\ query' = Set(query, "")
                /\ UNCHANGED toasts
           ELSE /\ toasts' = Append(toasts, "Failed to get a response")
                /\ UNCHANGED <<chatHistory, query>>
        /\ isLoading' = Set(isLoading, FALSE)
        /\ UNCHANGED <<processes, systemResources, loading, error, intervalRef,
                       intervals, lifecycle, refreshes, table, ollamaAvailable, probe>>

\* checkOllama after its await
ProbeSettle(outcomes) ==
  \E outcome \in outcomes :
    /\ probe = "pending"
    /\ probe' = "done"
    /\ ollamaAvailable' = Set(ollamaAvailable, isOllamaRunning(outcome))
    /\ UNCHANGED <<provider, toasts, table, query, isLoading, requests, submissions>>

(***************************************************************************)
(* ProcessTable                                                            *)
(***************************************************************************)
Min(a, b) == IF a < b THEN a ELSE b
Max(a, b) == IF a > b THEN a ELSE b

\* what the table computes on each render
Filtered == filteredProcesses(processes, searchTerm)
Sorted == sortedProcesses(Filtered, sortConfig)
TotalPages == totalPages(Sorted)
Paginated == paginatedProcesses(Sorted, currentPage)

\* what the body of the table shows: the placeholder rows of the initial load,
\* the rows of the current page, or one of the two messages
TableBody ==
  IF loading /\ Len(processes) = 0 THEN "skeleton"
  ELSE IF Len(Paginated) > 0 THEN "rows"
  ELSE IF searchTerm # "" THEN "No matching processes found"
  ELSE "No processes found"

\* a click that sorts ascending whatever the sort was
handleSortAscending(config, key) == [key |-> key, direction |-> "ascending"]

handleSort(config, key) ==
  [key |-> key,
   direction |-> IF config.key = key /\ config.direction = "ascending"
                 THEN "descending" ELSE "ascending"]

\* page links whose last-pages window starts one page early
pageNumOnePageEarly(i, page, pages) ==
  IF pages <= 5 THEN i + 1
  ELSE IF page <= 3 THEN i + 1
  ELSE IF page >= pages - 2 THEN pages - 5 + i
  ELSE page - 2 + i

\* the page number of link i (0-based) of the page-number window
pageNum(i, page, pages) ==
  IF pages <= 5 THEN i + 1
  ELSE IF page <= 3 THEN i + 1
  ELSE IF page >= pages - 2 THEN pages - 4 + i
  ELSE page - 2 + i

\* search Input onChange
SetSearchTerm(terms) ==
  \E t \in terms :
    /\ lifecycle = "mounted"
    /\ searchTerm' = t
    /\ UNCHANGED <<provider, toasts, sortConfig, currentPage, queryInput>>

\* a click on a column header
HandleSort(keys) ==
  \E key \in keys :
    /\ lifecycle = "mounted"
    /\ sortConfig' = handleSort(sortConfig, key)
    /\ UNCHANGED <<provider, toasts, searchTerm, currentPage, queryInput>>

\* the pagination bar, rendered when there are more rows than one page holds
ClickPrevious ==
  /\ currentPage' = Max(1, currentPage - 1)
  /\ UNCHANGED <<provider, toasts, searchTerm, sortConfig, queryInput>>

ClickNext(pages) ==
  /\ currentPage' = Min(pages, currentPage + 1)
  /\ UNCHANGED <<provider, toasts, searchTerm, sortConfig, queryInput>>

ClickPageLink(pages) ==
  \E i \in 0..(Min(5, pages) - 1) :
    /\ currentPage' = pageNum(i, currentPage, pages)
    /\ UNCHANGED <<provider, toasts, searchTerm, sortConfig, queryInput>>

Pagination ==
  /\ lifecycle = "mounted"
  /\ LET sorted == Sorted
         pages == totalPages(sorted)
     IN  /\ Len(sorted) > itemsPerPage
         /\ \/ ClickPrevious
            \/ ClickNext(pages)
            \/ ClickPageLink(pages)

(***************************************************************************)
(* Specifications                                                          *)
(***************************************************************************)
\* the state after the first refresh has settled with the payload procs
Loaded(procs) ==
  /\ processes = procs
  /\ systemResources = ServerResources
  /\ loading = FALSE
  /\ error = null
  /\ chatHistory = <<>>
  /\ intervalRef = "interval#1"
  /\ intervals = {"interval#1"}
  /\ lifecycle = "mounted"
  /\ refreshes = <<>>
  /\ toasts = <<>>
  /\ searchTerm = ""
  /\ sortConfig = [key |-> "memoryKb", direction |-> "descending"]
  /\ currentPage = 1
  /\ query = ""
  /\ isLoading = FALSE
  /\ ollamaAvailable = null
  /\ probe = "pending"
  /\ requests = {}
  /\ submissions = <<>>

\* ProcessTable over a process list that stays as it is
TableLists == {<<>>, Fixture, SampleList(10), SampleList(11), SampleList(23)}
TableTerms == {"", "o", "NO", "node", "Node h", "1", "04", "10", "run", "ROOT",
               "w-d", "zz", "+", "e"}
InitTable == \E procs \in TableLists : Loaded(procs)
NextTable ==
  \/ SetSearchTerm(TableTerms)
  \/ HandleSort(ProcessKeys)
  \/ Pagination
SpecTable == InitTable /\ [][NextTable]_vars

\* ProcessTable over lists long enough for the page-number window to slide
PagesLists == {SampleList(23), SampleList(71)}
PagesTerms == {"", "e", "zz"}
InitPages == \E procs \in PagesLists : Loaded(procs)
NextPages ==
  \/ SetSearchTerm(PagesTerms)
  \/ HandleSort({"pid", "name"})
  \/ Pagination
SpecPages == InitPages /\ [][NextPages]_vars

\* QueryInput over a process list that stays as it is
Queries == {"", " ", "\t ", "ps", " top "}
InitQuery == Loaded(Fixture)
NextQuery ==
  \/ SetQuery(Queries)
  \/ HandleSubmit(MaxSubmits)
  \/ QuerySettle(Answers(InferenceBodies) \cup Failures)
  \/ ProbeSettle(ProbeOutcomes)
SpecQuery == InitQuery /\ [][NextQuery]_vars

\* ProcessProvider alone
ProcessOutcomes == Answers(ServerLists) \cup Failures
ResourceOutcomes == Answers({ServerResources}) \cup Failures
NextProvider ==
  \/ Mount
  \/ TimerTick(MaxInFlight)
  \/ ClickRefresh(MaxInFlight)
  \/ FetchProcessesDone(ProcessOutcomes, {1})
  \/ FetchResourcesDone(ResourceOutcomes, {1})
  \/ Unmount
SpecProvider == Init /\ [][NextProvider]_vars

\* ProcessProvider alone, its events fair: the interval fires every 10 seconds
\* for as long as it is set, and the fetches of the oldest refresh in flight
\* complete (so those of every refresh do, each being the oldest in its turn)
ProviderFairness ==
  /\ SF_vars(TimerTick(MaxInFlight))
  /\ WF_vars(FetchProcessesDoneAt(1, ProcessOutcomes, {1}))
  /\ WF_vars(FetchResourcesDoneAt(1, ResourceOutcomes, {1}))
FairSpecProvider == Init /\ [][NextProvider]_vars /\ ProviderFairness

\* the whole application, its servers answering
Next ==
  \/ Mount
  \/ TimerTick(SysInFlight)
  \/ ClickRefresh(SysInFlight)
  \/ FetchProcessesDone(Answers({SampleList(11)}), {1})
  \/ FetchResourcesDone(Answers({ServerResources}), {1})
  \/ Unmount
  \/ SetQuery({"", "ps"})
  \/ HandleSubmit(SysSubmits)
  \/ QuerySettle(Answers({[response |-> "PID 1042 is node", done |-> "true"]}) \cup {[kind |-> "status"]})
  \/ ProbeSettle({[kind |-> "http", status |-> 200]})
  \/ SetSearchTerm({"", "o"})
  \/ HandleSort({"pid"})
  \/ Pagination
Spec == Init /\ [][Next]_vars

(***************************************************************************)
(* Properties                                                              *)
(***************************************************************************)
\* two characters that are equal or the two cases of one letter
SameIgnoringCase(c, d) ==
  \/ c = d
  \/ \E i \in 1..Len(UpperCase) :
       {c, d} = {CharAt(UpperCase, i), CharAt(LowerCase, i)}

\* t occurs in s, the case of the letters disregarded
ContainsIgnoringCase(s, t) ==
  \E off \in 0..(Len(s) - Len(t)) :
    \A k \in 1..Len(t) : SameIgnoringCase(CharAt(s, off + k), CharAt(t, k))

\* the indices of the records the search term selects
Selected ==
  {i \in 1..Len(processes) :
     \/ ContainsIgnoringCase(processes[i].name, searchTerm)
     \/ ContainsIgnoringCase(toString(processes[i].pid), searchTerm)
     \/ ContainsIgnoringCase(processes[i].status, searchTerm)
     \/ ContainsIgnoringCase(processes[i].user, searchTerm)}

\* seq is the subsequence of list at the indices of the set idx
IsSubsequenceAt(seq, list, idx) ==
  /\ Len(seq) = Cardinality(idx)
  /\ \A i \in idx : seq[Cardinality({j \in idx : j <= i})] = list[i]

\* C1: the filtered list holds exactly the records whose name, decimal pid,
\* status or user contains the search term, the case of letters disregarded,
\* in the order of the process list; the empty term keeps the whole list.
FilterIsExact ==
  /\ IsSubsequenceAt(Filtered, processes, Selected)
  /\ (searchTerm = "" => Filtered = processes)

\* C1: a term in capitals selects three records of six, by name and by status
FilterIsExactWitness ==
  /\ processes = Fixture
  /\ searchTerm = "NO"
  /\ [i \in 1..Len(Filtered) |-> Filtered[i].pid] = <<1042, 77, 410>>

\* the < of the ECMAScript relational comparison of two strings: at the first
\* position where they differ the code unit of a is the smaller, or a ends there
StringBefore(a, b) ==
  \E k \in 1..Len(b) :
    /\ k <= Len(a) + 1
    /\ \A m \in 1..(k - 1) : CharAt(a, m) = CharAt(b, m)
    /\ \/ k = Len(a) + 1
       \/ CharCode[CharAt(a, k)] < CharCode[CharAt(b, k)]

\* the value x comes before the value y in the chosen order of the sort
KeyBefore(x, y) ==
  LET lt(u, v) == IF sortConfig.key \in NumberKeys THEN u < v ELSE StringBefore(u, v)
  IN  IF sortConfig.direction = "ascending" THEN lt(x, y) ELSE lt(y, x)

\* the place of the record r in the list f (the pids of a list are distinct)
PlaceIn(f, r) == CHOOSE i \in 1..Len(f) : f[i].pid = r.pid

\* C2: the sorted list is a permutation of the filtered list, in the order of
\* the chosen field and direction, and records with equal keys keep the order
\* they have in the filtered list, ascending and descending alike.
SortIsStablePermutation ==
  LET f == Filtered
      s == Sorted
      key == sortConfig.key
      place == [i \in 1..Len(s) |-> PlaceIn(f, s[i])]
  IN  /\ Len(s) = Len(f)
      /\ \A i \in 1..Len(f) : \E j \in 1..Len(s) : s[j] = f[i]
      /\ \A i, j \in 1..Len(s) :
           i < j => /\ ~KeyBefore(s[j][key], s[i][key])
                    /\ (s[i][key] = s[j][key]
                          => place[i] < place[j])

\* C2: a descending sort of strings with ties: "Zombie" is the least status,
\* the two sleeping records and the two running ones stand in the order of the list
SortIsStablePermutationWitness ==
  /\ processes = Fixture
  /\ searchTerm = ""
  /\ sortConfig = [key |-> "status", direction |-> "descending"]
  /\ [i \in 1..Len(Sorted) |-> Sorted[i].pid] = <<42, 77, 1100, 1042, 9, 410>>

\* C3: totalPages is the ceiling of L / 10, and page p of 1..totalPages shows
\* the elements (p-1)*10 .. min(p*10, L)-1 of the sorted list: the pages in
\* order give the sorted list back, the last page holds L mod 10 rows, or 10.
PagesPartitionSorted ==
  LET s == Sorted
      L == Len(s)
      n == totalPages(s)
      page(p) == paginatedProcesses(s, p)
  IN  /\ n * itemsPerPage >= L
      /\ (n - 1) * itemsPerPage < L \/ (n = 0 /\ L = 0)
      /\ \A p \in 1..n :
           /\ Len(page(p)) = Min(p * itemsPerPage, L) - (p - 1) * itemsPerPage
           /\ \A k \in 1..Len(page(p)) : page(p)[k] = s[(p - 1) * itemsPerPage + k]
      /\ n > 0 => Len(page(n)) = (IF L % itemsPerPage = 0 THEN itemsPerPage
                                                          ELSE L % itemsPerPage)
      /\ (currentPage \in 1..n => Paginated = page(currentPage))

\* C3: the third and last page of 23 rows shows 3 rows
PagesPartitionSortedWitness ==
  /\ Len(Sorted) = 23
  /\ TotalPages = 3
  /\ currentPage = 3
  /\ Len(Paginated) = 3

\* C4: after any page clicks, search changes, sort changes and refreshes the
\* current page is at least 1 and at most the last page (1 when no row is left).
PageWithinRange ==
  /\ currentPage >= 1
  /\ currentPage <= Max(1, TotalPages)

\* what became of a submission: "pending" until the inference service answers
KindOf(sub) == IF "kind" \in DOMAIN sub.outcome THEN sub.outcome.kind ELSE "pending"

\* the submissions that succeeded, by their place in submission order
Succeeded == {i \in DOMAIN submissions : KindOf(submissions[i]) = "json"}

\* the text a successful submission puts into the chat
ReplyOf(sub) ==
  IF "response" \in DOMAIN sub.outcome.body /\ sub.outcome.body.response # ""
  THEN sub.outcome.body.response
  ELSE "No response from Ollama."

\* C5: with N submissions succeeded the chat history has N entries, entry i the
\* reply of the i-th successful submission in submission order; failed and
\* rejected empty submissions add none.
ChatIsRepliesInOrder ==
  /\ Len(chatHistory) = Cardinality(Succeeded)
  /\ \A i \in Succeeded :
       chatHistory[Cardinality({j \in Succeeded : j <= i})] = ReplyOf(submissions[i])

\* C5: two successes with a failure between them leave the two replies in order
ChatIsRepliesInOrderWitness ==
  /\ Len(submissions) = 3
  /\ KindOf(submissions[1]) = "json"
  /\ KindOf(submissions[2]) = "network"
  /\ KindOf(submissions[3]) = "json"
  /\ chatHistory = <<"PID 1042 is node", "3 processes are running">>

\* C6: a step of the application leaves the chat history as it is or adds one
\* entry at its end, the entries before it untouched; a submission that
\* succeeds adds its reply even when the history holds that reply already.
ChatAppendOnly ==
  [][/\ \/ chatHistory' = chatHistory
        \/ /\ Len(chatHistory') = Len(chatHistory) + 1
           /\ SubSeq(chatHistory', 1, Len(chatHistory)) = chatHistory
     /\ \A id \in requests \ requests' :
          (lifecycle = "mounted" /\ KindOf(submissions'[id]) = "json")
            => chatHistory' = chatHistory \o <<ReplyOf(submissions'[id])>>]_vars

\* C6: the same reply twice in the history, the process list refreshed meanwhile
ChatAppendOnlyWitness ==
  /\ chatHistory = <<"PID 1042 is node", "PID 1042 is node">>
  /\ Len(processes) = 11

\* a query of white space only
IsBlank(q) == \A i \in 1..Len(q) : CharAt(q, i) \in {" ", "\t"}

\* C7: submitting a query that is empty or white space adds one warning and
\* nothing else: no request, no chat entry, isLoading and the input as they were.
BlankSubmitOnlyWarns ==
  [][(Len(submissions') = Len(submissions) + 1 /\ IsBlank(query))
       => /\ toasts' = Append(toasts, "Please enter a query")
          /\ KindOf(submissions'[Len(submissions')]) = "empty"
          /\ UNCHANGED <<requests, chatHistory, isLoading, query>>]_vars

\* C7: a query of a tab and a space was submitted and rejected
BlankSubmitOnlyWarnsWitness ==
  /\ Len(submissions) = 1
  /\ submissions[1].query = "\t "
  /\ KindOf(submissions[1]) = "empty"
  /\ toasts = <<"Please enter a query">>
  /\ requests = {} /\ chatHistory = <<>> /\ ~isLoading /\ query = "\t "

\* what a step in which request id settles does, entry being the entry a
\* success in kinds appends and failing the kinds of failure
SettlesAs(id, entry, failing) ==
  LET sub == submissions'[id]
  IN  /\ KindOf(sub) = "json"
          => /\ chatHistory' = Append(chatHistory, entry)
             /\ query' = ""
             /\ toasts' = toasts
      /\ KindOf(sub) \in failing
          => /\ toasts' = Append(toasts, "Failed to get a response")
             /\ chatHistory' = chatHistory
             /\ query' = sub.query

\* C8 as stated: a success appends the reply, or the placeholder when the
\* reply field is absent, and clears the input; a failure (status, transport)
\* shows an error, leaves the chat as it is and the input holding the query.
SettleAppendsReplyUnlessAbsent ==
  [][\A id \in requests \ requests' :
       SettlesAs(id,
                 IF "response" \in DOMAIN submissions'[id].outcome.body
                 THEN submissions'[id].outcome.body.response
                 ELSE "No response from Ollama.",
                 {"status", "network"})]_vars

\* C8: a success appends the reply, or the placeholder when the reply field is
\* absent or empty, and clears the input; a failure (status, transport, a body
\* that does not parse) shows an error, leaves the chat as it is and the input
\* holding the query.
SettleAppendsReplyUnlessEmpty ==
  [][\A id \in requests \ requests' :
       SettlesAs(id,
                 IF /\ "response" \in DOMAIN submissions'[id].outcome.body
                    /\ submissions'[id].outcome.body.response # ""
                 THEN submissions'[id].outcome.body.response
                 ELSE "No response from Ollama.",
                 {"status", "network", "unparsable"})]_vars

\* C8: a failure, then a success with an empty reply: the placeholder is in the
\* chat and the input is cleared
SettleAppendsReplyUnlessEmptyWitness ==
  /\ Len(submissions) = 2
  /\ submissions[1] = [query |-> "ps", outcome |-> [kind |-> "status"]]
  /\ submissions[2] = [query |-> "ps",
                       outcome |-> [kind |-> "json",
                                    body |-> [response |-> "", done |-> "true"]]]
  /\ toasts = <<"Failed to get a response">>
  /\ chatHistory = <<"No response from Ollama.">>
  /\ query = ""

\* C9: at most one submission is in flight, and isLoading is true exactly
\* while one is: from the start of a non-empty submission until it settles.
OneSubmissionInFlight ==
  /\ Cardinality(requests) <= 1
  /\ isLoading <=> requests # {}
  /\ requests = {i \in DOMAIN submissions : KindOf(submissions[i]) = "pending"}

\* C9: a third submission in flight after a success and a failure have settled
OneSubmissionInFlightWitness ==
  /\ Len(submissions) = 3
  /\ KindOf(submissions[1]) = "json"
  /\ KindOf(submissions[2]) = "status"
  /\ requests = {3}
  /\ isLoading

\* the synthetic process lists and resource summaries
MockLists == {mockProcesses[seed] : seed \in Seeds}
MockResources == {generateMockSystemResources(seed) : seed \in Seeds}

\* C10: no failure of a fetch surfaces as a refresh error: error is null in
\* every state and no error is notified; the promise of a failed fetch is
\* fulfilled with synthetic data; a refresh that settles clears error and
\* loading and stores the synthetic data of the fetch that failed.
FetchFailuresAbsorbed ==
  /\ [](/\ error = null
        /\ toasts = <<>>
        /\ \A i \in DOMAIN refreshes :
             /\ refreshes[i].proc.state # "rejected"
             /\ refreshes[i].res.state # "rejected"
             /\ refreshes[i].procFailed
                  => /\ refreshes[i].proc.state = "fulfilled"
                     /\ refreshes[i].proc.value \in MockLists
             /\ refreshes[i].resFailed
                  => /\ refreshes[i].res.state = "fulfilled"
                     /\ refreshes[i].res.value \in MockResources)
  /\ [][\A i \in DOMAIN refreshes :
          (refreshes' = Remove(refreshes, i) /\ lifecycle = "mounted")
            => /\ error' = null
               /\ ~loading'
               /\ toasts' = toasts
               /\ refreshes[i].procFailed
                    => processes' = updateProcesses(processes, refreshes[i].proc.value)
               /\ refreshes[i].resFailed
                    => systemResources' = refreshes[i].res.value]_vars

\* C10: a refresh whose two fetches failed has settled: synthetic data in
\* place, no error
FetchFailuresAbsorbedWitness ==
  /\ lifecycle = "mounted"
  /\ refreshes = <<>>
  /\ processes \in MockLists
  /\ systemResources \in MockResources
  /\ error = null
  /\ ~loading

\* the elements of a sequence
Range(seq) == {seq[i] : i \in 1..Len(seq)}

\* a list of 100 records of distinct pids, by non-increasing memoryKb, the
\* name, user, status and priority of each taken from the catalogs
IsSyntheticList(list) ==
  /\ Len(list) = 100
  /\ Cardinality({list[i].pid : i \in 1..Len(list)}) = 100
  /\ \A i \in 1..(Len(list) - 1) : list[i].memoryKb >= list[i + 1].memoryKb
  /\ \A i \in 1..Len(list) :
       /\ list[i].name \in Range(processNames)
       /\ list[i].user \in Range(users)
       /\ list[i].status \in Range(statuses)
       /\ list[i].priority \in Range(priorities)

\* a resource summary with the capacities of the initial state
HasFixedCapacities(summary) ==
  /\ summary.totalMemory = 32000
  /\ summary.totalDisk = 1000000
  /\ summary.totalMemory = initialResources.totalMemory
  /\ summary.totalDisk = initialResources.totalDisk

\* C11: every synthetic process list has exactly 100 records of pairwise
\* distinct pids, by non-increasing memoryKb, with name, user, status and
\* priority from the catalogs; every synthetic resource summary has
\* totalMemory 32000 and totalDisk 1000000, those of the initial state.
SyntheticDataWellFormed ==
  /\ \A seed \in Seeds :
       /\ IsSyntheticList(mockProcesses[seed])
       /\ HasFixedCapacities(generateMockSystemResources(seed))
  /\ \A i \in DOMAIN refreshes :
       /\ refreshes[i].procFailed => IsSyntheticList(refreshes[i].proc.value)
       /\ refreshes[i].resFailed => HasFixedCapacities(refreshes[i].res.value)
  /\ HasFixedCapacities(systemResources) \/ systemResources = ServerResources

\* C11: the process fetch of a refresh has failed and holds its synthetic
\* list, after an earlier refresh stored a synthetic resource summary
SyntheticDataWellFormedWitness ==
  /\ Len(refreshes) = 1
  /\ refreshes[1].procFailed
  /\ Len(refreshes[1].proc.value) = 100
  /\ systemResources.totalCpuUsage # 0
  /\ systemResources # ServerResources

\* C12: the process list and the resource summary change only in a step in
\* which a refresh settles, its two fetches complete: no state holds a refresh
\* with both results in hand and not applied, and no step changes either value
\* while the other fetch of the refresh is pending.
RefreshAppliesBothOrNeither ==
  /\ [](\A i \in DOMAIN refreshes :
          refreshes[i].proc = Pending \/ refreshes[i].res = Pending)
  /\ [][/\ (processes' # processes \/ systemResources' # systemResources)
            => Len(refreshes') = Len(refreshes) - 1
        /\ Len(refreshes') < Len(refreshes)
            => \E i \in DOMAIN refreshes :
                 /\ refreshes' = Remove(refreshes, i)
                 /\ refreshes[i].proc # Pending \/ refreshes[i].res # Pending
                 /\ (lifecycle = "mounted" /\ refreshes[i].proc # Pending)
                      => processes' = updateProcesses(processes, refreshes[i].proc.value)
                 /\ (lifecycle = "mounted" /\ refreshes[i].res # Pending)
                      => systemResources' = refreshes[i].res.value]_vars

\* C12: the first refresh has its process list in hand and waits for the
\* resource summary: the held list and summary are still the initial ones
RefreshAppliesBothOrNeitherWitness ==
  /\ Len(refreshes) = 1
  /\ refreshes[1].proc = Fulfilled(Fixture)
  /\ refreshes[1].res = Pending
  /\ processes = initialProcesses
  /\ systemResources = initialResources

\* C13: once the container is torn down the interval is cancelled and no
\* refresh starts in any later step; creation starts one refresh at once and
\* sets the interval, which runs as long as the container is mounted, and a
\* step starts at most one refresh.
TeardownCancelsSchedule ==
  /\ [](/\ lifecycle = "unmounted" => intervals = {}
        /\ lifecycle = "mounted" => (intervals # {} /\ intervalRef \in intervals)
        /\ lifecycle = "rendered" => (intervals = {} /\ refreshes = <<>>))
  /\ [][/\ lifecycle = "unmounted" => Len(refreshes') <= Len(refreshes)
        /\ lifecycle' = "unmounted" => Len(refreshes') <= Len(refreshes)
        /\ (lifecycle = "rendered" /\ lifecycle' = "mounted")
            => /\ Len(refreshes') = 1
               /\ refreshes'[1].proc = Pending /\ refreshes'[1].res = Pending
        /\ Len(refreshes') <= Len(refreshes) + 1]_vars

\* C13: torn down after a tick: the interval is gone, the refresh of the tick
\* is still in flight, the first refresh has stored its list
TeardownCancelsScheduleWitness ==
  /\ lifecycle = "unmounted"
  /\ intervals = {}
  /\ intervalRef # null
  /\ processes = Fixture
  /\ Len(refreshes) = 1
  /\ loading

\* C14: as long as the container is not torn down the schedule is not halted:
\* in a run in which the container stays mounted the interval starts a
\* refresh again and again, whatever became of the refreshes before it.
ScheduleNeverHalts ==
  <>[](lifecycle = "mounted") => []<><<TimerTick(MaxInFlight)>>_vars

\* C14: the interval has started a refresh while the one before it is in
\* flight, after a refresh that fell back to synthetic data
ScheduleNeverHaltsWitness ==
  /\ lifecycle = "mounted"
  /\ processes = mockProcesses[1]
  /\ Len(refreshes) = 2
  /\ refreshes[1].resFailed
  /\ intervals # {}

\* C19: the loading flag is cleared whenever a refresh settles: the step in
\* which a refresh of the mounted container settles leaves loading false; no
\* refresh stays in flight for ever (either none is in flight from some state
\* on, or the oldest one in flight settles again and again); loading once
\* true becomes false again; and with the container mounted and no refresh in
\* flight loading is false.
LoadingClearedOnSettle ==
  /\ []((lifecycle = "mounted" /\ refreshes = <<>>) => ~loading)
  /\ [][(Len(refreshes') < Len(refreshes) /\ lifecycle = "mounted") => ~loading']_vars
  /\ \/ <>[](refreshes = <<>>)
     \/ []<><<refreshes # <<>> /\ refreshes' = Tail(refreshes)>>_vars
  /\ (lifecycle = "mounted" /\ loading) ~> (~loading \/ lifecycle = "unmounted")

\* C19: a refresh that fell back to a synthetic list has settled and none is
\* in flight: loading is false
LoadingClearedOnSettleWitness ==
  /\ lifecycle = "mounted"
  /\ refreshes = <<>>
  /\ processes = mockProcesses[1]
  /\ systemResources = ServerResources
  /\ ~loading

\* what a click on the header of sortConfig'.key did in a step that changed
\* the sort: first is the direction it gave, second the direction a further
\* click on the same header gives
HeaderClicked(wasAscendingOnKey, first, second) ==
  (sortConfig.key = sortConfig'.key /\ sortConfig.direction = "ascending") = wasAscendingOnKey
    => /\ sortConfig'.direction = first
       /\ handleSort(sortConfig', sortConfig'.key)
            = [key |-> sortConfig'.key, direction |-> second]

\* C15 as stated: the sort starts as (memoryKb, descending), and from any state
\* two clicks in a row on one header give ascending, then descending.
TwoClicksAscendingThenDescending ==
  /\ sortConfig = [key |-> "memoryKb", direction |-> "descending"]
  /\ [][sortConfig' # sortConfig
          => /\ HeaderClicked(TRUE, "ascending", "descending")
             /\ HeaderClicked(FALSE, "ascending", "descending")]_vars

\* C15: the sort starts as (memoryKb, descending); a click on the header of
\* the current key while ascending gives descending, every other click gives
\* its key ascending: two clicks in a row on one header give ascending then
\* descending, but descending then ascending when the sort was that key
\* ascending.
SortTogglesOnSameKey ==
  /\ sortConfig = [key |-> "memoryKb", direction |-> "descending"]
  /\ [][sortConfig' # sortConfig
          => /\ HeaderClicked(TRUE, "descending", "ascending")
             /\ HeaderClicked(FALSE, "ascending", "descending")]_vars

\* C15: the header of the user column clicked twice in a row: the rows are in
\* descending order of user
SortTogglesOnSameKeyWitness ==
  /\ sortConfig = [key |-> "user", direction |-> "descending"]
  /\ processes = Fixture
  /\ searchTerm = ""
  /\ [i \in 1..Len(Sorted) |-> Sorted[i].user]
       = <<"www-data", "www-data", "user", "root", "root", "Admin">>

\* C16: when the table shows no rows outside the initial load, "No processes
\* found" is shown only while the held list is empty, and "No matching
\* processes found" only while a non-empty search term matches no record of
\* the held list.
MessageNamesCause ==
  /\ TableBody = "No processes found" => processes = <<>>
  /\ TableBody = "No matching processes found"
       => searchTerm # "" /\ Filtered = <<>>

\* the page numbers of the links of the pagination bar, left to right
PageWindow ==
  LET pages == TotalPages
  IN  [k \in 1..Min(5, pages) |-> pageNum(k - 1, currentPage, pages)]

\* C17: while the pagination bar is shown and the current page is one of the
\* pages, the page links are min(5, totalPages) consecutive page numbers, all
\* of them pages, the current page among them; the current page is the middle
\* link when there are more than 5 pages and it is neither among the first two
\* nor among the last two, otherwise the links are the first or the last
\* pages.
PageWindowAroundCurrent ==
  LET rows == Len(Sorted)
      pages == TotalPages
      window == PageWindow
  IN  (rows > itemsPerPage /\ currentPage \in 1..pages) =>
        /\ Len(window) = Min(5, pages)
        /\ \A k \in 1..(Len(window) - 1) : window[k + 1] = window[k] + 1
        /\ \A k \in 1..Len(window) : window[k] \in 1..pages
        /\ \E k \in 1..Len(window) : window[k] = currentPage
        /\ IF pages > 5 /\ 3 <= currentPage /\ currentPage <= pages - 2
           THEN window[3] = currentPage
           ELSE \/ window[1] = 1
                \/ window[Len(window)] = pages

\* C17: page 7 of 8: the links are the last five pages, and the current page
\* is not the middle one
PageWindowAroundCurrentWitness ==
  /\ TotalPages = 8
  /\ currentPage = 7
  /\ PageWindow = <<4, 5, 6, 7, 8>>

\* C18: a step that starts a refresh sets loading only if the held process list
\* is empty: started with a non-empty list, timer-triggered or manual, the
\* refresh leaves loading as it was, hence false if it was false.
LoadingOnlyOnFirstLoad ==
  [][(Len(refreshes') > Len(refreshes) /\ processes # <<>>) => loading' = loading]_vars

\* the first five entries of a list, or all of them if it has fewer
FirstFive(list) == SubSeq(list, 1, Min(5, Len(list)))

\* the list held after a refresh applied newList over the held list prior
AppliedOver(prior, newList) ==
  IF prior # <<>> /\ FirstFive(prior) = FirstFive(newList) THEN prior ELSE newList

\* lists shorter than a payload, for the updater to compare
ShortLists == {SubSeq(Fixture, 1, n) : n \in 1..5}

\* C20: when a refresh applies its result the held list stays the prior list
\* if and only if the prior list is non-empty and its first five entries equal
\* the first five of the fetched list, and otherwise becomes the fetched list:
\* so for the held list against every list a fetch can give, and so in every
\* step in which a refresh of the mounted container applies its result.
UpdateKeepsListOnEqualFirstFive ==
  /\ [](\A fetched \in Payloads \cup ShortLists :
          updateProcesses(processes, fetched) = AppliedOver(processes, fetched))
  /\ [][\A i \in DOMAIN refreshes :
          (/\ refreshes' = Remove(refreshes, i)
           /\ lifecycle = "mounted"
           /\ toasts' = toasts)
          => IF refreshes[i].proc.state = "fulfilled"
             THEN processes' = AppliedOver(processes, refreshes[i].proc.value)
             ELSE \E fetched \in Payloads : processes' = AppliedOver(processes, fetched)]_vars

\* C20: the held list is the later payload and a refresh in flight has fetched
\* the earlier one, whose first five entries are the same: the later payload
\* was applied, and the earlier one will leave it as it is
UpdateKeepsListOnEqualFirstFiveWitness ==
  /\ lifecycle = "mounted"
  /\ processes = FixtureLater
  /\ Len(refreshes) = 1
  /\ refreshes[1].proc = Fulfilled(Fixture)
  /\ updateProcesses(processes, Fixture) = FixtureLater

\* C21: shared state changes only through the two operations of the container.
\* A step of the table view (search, sort, page) or of the availability probe
\* leaves the process list, the resource summary and the chat history as they
\* are; a step of a query submission leaves the container as it is, but for
\* the reply a successful one appends to the chat history; a step of a
\* refresh leaves the chat history as it is; and a step that changes the chat
\* history leaves the process list and the resource summary as they are.
SharedStateChangedByContainerOnly ==
  [][/\ (table' # table \/ probe' # probe \/ ollamaAvailable' # ollamaAvailable)
          => UNCHANGED <<processes, systemResources, chatHistory>>
     /\ submissions' # submissions
          => /\ UNCHANGED <<processes, systemResources, loading, error, intervalRef,
                            intervals, lifecycle, refreshes>>
             /\ \/ chatHistory' = chatHistory
                \/ \E id \in requests \ requests' :
                     /\ KindOf(submissions'[id]) = "json"
                     /\ chatHistory' = Append(chatHistory, ReplyOf(submissions'[id]))
     /\ (refreshes' # refreshes \/ loading' # loading \/ error' # error
           \/ processes' # processes \/ systemResources' # systemResources)
          => chatHistory' = chatHistory
     /\ chatHistory' # chatHistory
          => UNCHANGED <<processes, systemResources>>]_vars

\* C21: the probe has answered, a search term is typed and the pid header
\* clicked, a refresh has stored its list and another is in flight, and a
\* submission has put its reply into the chat
SharedStateChangedByContainerOnlyWitness ==
  /\ probe = "done"
  /\ searchTerm = "o"
  /\ sortConfig.key = "pid"
  /\ currentPage = 2
  /\ processes = SampleList(11)
  /\ systemResources = ServerResources
  /\ refreshes # <<>>
  /\ chatHistory = <<"PID 1042 is node">>

\* the lists and the summaries the refresh r in flight can come to hold: what
\* it has fetched, or what its fetch can still give
ListsOf(r) ==
  IF r.proc.state = "fulfilled" THEN {r.proc.value}
  ELSE {fetchProcesses(outcome, 1).value : outcome \in ProcessOutcomes}
SummariesOf(r) ==
  IF r.res.state = "fulfilled" THEN {r.res.value}
  ELSE {fetchSystemResources(outcome, 1).value : outcome \in ResourceOutcomes}

\* refresh i of the mounted container settles in this step, no fetch rejected
Settles(i) ==
  /\ i \in DOMAIN refreshes
  /\ refreshes' = Remove(refreshes, i)
  /\ lifecycle = "mounted"
  /\ toasts' = toasts

\* C22: nothing keeps two refreshes from being in flight at once, and their
\* results are applied in the order they complete, not the order they started:
\* whichever of several refreshes in flight settles, the first started as well
\* as the last, the held summary becomes its summary and the held list its
\* list (unless the comparison of the first five keeps the held list), and the
\* other refreshes stay in flight to settle over it later.
AppliedInCompletionOrder ==
  [][\A i \in DOMAIN refreshes :
       (Len(refreshes) > 1 /\ Settles(i))
         => /\ systemResources' \in SummariesOf(refreshes[i])
            /\ processes' \in {AppliedOver(processes, fetched) : fetched \in ListsOf(refreshes[i])}
            /\ Len(refreshes') = Len(refreshes) - 1]_vars

\* C22: a refresh has settled, with the server's summary and an empty list,
\* while another refresh, which has fetched another summary, was in flight
\* (loading is false and no list is held, so a refresh settled after that one
\* started); that one will settle over it
AppliedInCompletionOrderWitness ==
  /\ lifecycle = "mounted"
  /\ ~loading
  /\ processes = <<>>
  /\ systemResources = ServerResources
  /\ Len(refreshes) = 1
  /\ refreshes[1].res = Fulfilled(generateMockSystemResources(1))
  /\ refreshes[1].proc = Pending

\* C23: a refresh that settles puts the summary it fetched into the state,
\* also when the comparison of the first five entries keeps the held list, and
\* no other step changes the held summary: so the held summary is that of the
\* refresh that settled last, while the held list can be that of an earlier
\* refresh.
SummaryOfLastSettled ==
  [][/\ \A i \in DOMAIN refreshes :
          Settles(i)
            => /\ systemResources' \in SummariesOf(refreshes[i])
               /\ (/\ refreshes[i].proc.state = "fulfilled"
                   /\ processes # <<>>
                   /\ FirstFive(refreshes[i].proc.value) = FirstFive(processes))
                    => processes' = processes
     /\ systemResources' # systemResources
          => \E i \in DOMAIN refreshes : Settles(i)]_vars

\* C23: the held list is that of an earlier refresh and the held summary the
\* fallback of a failed fetch; the refresh in flight has fetched a list with
\* the same first five entries and the server's summary: settling, it replaces
\* the summary and keeps the list
SummaryOfLastSettledWitness ==
  /\ lifecycle = "mounted"
  /\ processes = Fixture
  /\ systemResources = generateMockSystemResources(1)
  /\ Len(refreshes) = 1
  /\ refreshes[1].proc = Fulfilled(FixtureLater)
  /\ refreshes[1].res = Pending
  /\ updateProcesses(processes, FixtureLater) = Fixture

=============================================================================
